---------------------------- MODULE Spec2Model ----------------------------
(***************************************************************************)
(* A model of src/src/main.cpp of ProceduralTreeGeneration: the main       *)
(* loop with its ImGui panels, regenerateTree with its buffer handling     *)
(* and its two generation branches, the space-colonization driver loop,    *)
(* and the L-System rewriting and turtle interpretation the L-System       *)
(* branch hands its arguments to.                                          *)
(*                                                                         *)
(* Floats are scaled to integers: scaleFactor by 100 (0.75 is 75), the     *)
(* space-colonization lengths by 10 (BRANCH_LENGTH 0.2 is 2, the           *)
(* attraction radius 0.5 is 5, the kill radius 0.2 is 2).  A C++ string    *)
(* is a sequence of one-character strings.                                 *)
(***************************************************************************)
EXTENDS Integers, Sequences, FiniteSets, TLC

VARIABLES
    \* ---- main() and regenerateTree() ----
    pc,               \* position in main / regenerateTree
    mode,             \* the global Mode
    lParams,          \* static LSystemParameters lParams
    scParams,         \* static SpaceColonizationParameters scParams
    parameters,       \* the std::variant local of main
    rt,               \* the active regenerateTree call (its by-value arguments), or None
    cylinderBuffers,  \* handle held by main, passed by reference
    leafBuffers,      \* handle held by main, passed by reference
    glLive,           \* buffer objects created and not yet deleted
    transforms,       \* branchTransforms / leafTransforms: what they were generated from
    \* history of the run
    glStale,          \* live buffer objects that were created before the current regenerateTree call began
    presetFired,      \* a preset button has fired in the current frame
    edits,            \* number of Parameters-panel edits so far
    \* ---- L-System generation (Tree::createBranchesLSystem) ----
    lsCfg, lspc, lsPass, lsIn, lsOut, turtle, stack, segs, leaves, lsError,
    \* ---- space colonization (driver loop of regenerateTree) ----
    scCfg, scpc, nodes, points, itr, grew, growCalls, callsAfterStall, linkCalls, lastGrown

uiVars == <<pc, mode, lParams, scParams, parameters, rt, cylinderBuffers, leafBuffers,
            glLive, transforms, glStale, presetFired, edits>>
lsVars == <<lsCfg, lspc, lsPass, lsIn, lsOut, turtle, stack, segs, leaves, lsError>>
scVars == <<scCfg, scpc, nodes, points, itr, grew, growCalls, callsAfterStall, linkCalls, lastGrown>>
vars == <<uiVars, lsVars, scVars>>

None == "None"

\* no regenerateTree call is active
NoCall == [src |-> "none"]

\* a cleared transform list
Empty == [mode |-> "empty"]

(***************************************************************************)
(* Bounds of the model.                                                    *)
(***************************************************************************)
MaxEdits == 2      \* Parameters-panel edits in one run
MaxDepth == 2      \* rewriting passes explored by the L-System runs
MaxCoord == 9      \* attraction points lie at -MaxCoord .. MaxCoord on the axis
MaxPoints == 2     \* attraction points in one space-colonization run

(***************************************************************************)
(* Program constants.                                                      *)
(***************************************************************************)
BRANCH_LENGTH == 2
ROOT_BRANCH_COUNT == 7
MAX_GROW == 200
ATTRACTION_RADIUS == 5
KILL_RADIUS_typo == 2 * 10
KILL_RADIUS == 2

(***************************************************************************)
(* The rule strings of main.cpp.                                           *)
(***************************************************************************)
RuleF == <<"F","[","/","+","F","L","]","[","-","F","L","]">>
RuleL == <<"L","[","+","L","]","[","-","L","]","[","&","L","]","[","^","L","]">>
RuleYFull == <<"F","[","\\","+","&","F","Y","L","]","[","/","-","+","F","^","Y","L","]","[","/","&","F","^","Y","*","L","]","[","\\","^","F","Y","L","]","[","F","+","+","+","+","Y","L","]">>
RuleXHard == <<"F","[","/","/","+","X","X","L","]","[","+","+","+","Y","X","L","]","[","-","&","^","F","X","L","]","[","&","F","X","L","]","[","\\","^","F","X","L","]","[","-","-","^","F","X","L","]">>

HardcodedRules_unbalanced ==
    [c \in {"X", "F", "Y", "L"} |->
        CASE c = "X" -> RuleXHard
          [] c = "F" -> <<"F","[","/","+","F","L","]","-","F","L","]">>
          [] c = "Y" -> RuleYFull
          [] c = "L" -> RuleL]

\* the local `rules` of regenerateTree
HardcodedRules ==
    [c \in {"X", "F", "Y", "L"} |->
        CASE c = "X" -> RuleXHard
          [] c = "F" -> RuleF
          [] c = "Y" -> RuleYFull
          [] c = "L" -> RuleL]

DEFAULT_L_SYS_PARAMS ==
    [depth |-> 3, scaleFactor |-> 75, branchRadius |-> 15,
     minLeafCount |-> 10, maxLeafCount |-> 20, axiom |-> <<"X">>,
     rules |-> [c \in {"X", "F", "Y", "L"} |->
        CASE c = "X" -> RuleXHard \o <<"[","^","&","X","]">>
          [] c = "F" -> RuleF
          [] c = "Y" -> RuleYFull
          [] c = "L" -> RuleL]]

L_SYS_PRESET_PLANT ==
    [depth |-> 2, scaleFactor |-> 50, branchRadius |-> 5,
     minLeafCount |-> 5, maxLeafCount |-> 15, axiom |-> <<"X">>,
     rules |-> [c \in {"X", "F", "Y", "L"} |->
        CASE c = "X" -> <<"F","[","/","/","+","X","X","L","]","[","+","+","+","Y","X","L","]","[","-","&","^","F","X","L","]">>
          [] c = "F" -> RuleF
          [] c = "Y" -> <<"F","[","\\","+","&","F","Y","L","]","[","/","-","+","F","^","Y","L","]">>
          [] c = "L" -> RuleL]]

DEFAULT_SPACE_COLONIZATION_PARAMS ==
    [envelope_height |-> 10, envelope_width |-> 20, envelope_length |-> 20,
     envelope_distance |-> 10, envelope_density |-> <<3, 3, 3>>]

\* the two alternatives of std::variant<LSystemParameters, SpaceColonizationParameters>
LVariant(p) == [tag |-> "LSystemParameters", val |-> p]
SCVariant(p) == [tag |-> "SpaceColonizationParameters", val |-> p]

\* the parameter set the Parameters panel shows for the current mode
ActiveParams ==
    IF mode = "LSystem" THEN LVariant(lParams) ELSE SCVariant(scParams)

(***************************************************************************)
(* Values a Parameters-panel input can be set to.                          *)
(***************************************************************************)
LEdits ==
    {<<"depth", v>> : v \in {-1, 1}}
    \cup {<<"scaleFactor", v>> : v \in {50}}
    \cup {<<"branchRadius", v>> : v \in {5}}
    \cup {<<"minLeafCount", v>> : v \in {25}}
    \cup {<<"maxLeafCount", v>> : v \in {7}}

ApplyLEdit(p, e) ==
    CASE e[1] = "depth" -> [p EXCEPT !.depth = e[2]]
      [] e[1] = "scaleFactor" -> [p EXCEPT !.scaleFactor = e[2]]
      [] e[1] = "branchRadius" -> [p EXCEPT !.branchRadius = e[2]]
      [] e[1] = "minLeafCount" -> [p EXCEPT !.minLeafCount = e[2]]
      [] e[1] = "maxLeafCount" -> [p EXCEPT !.maxLeafCount = e[2]]

SCEdits ==
    {<<"envelope_height", v>> : v \in {0}}
    \cup {<<"envelope_width", v>> : v \in {-10}}
    \cup {<<"envelope_length", v>> : v \in {0}}
    \cup {<<"envelope_distance", v>> : v \in {0}}
    \cup {<<"density1", v>> : v \in {0}}
    \cup {<<"density2", v>> : v \in {0, 1}}
    \cup {<<"density3", v>> : v \in {-1}}

ApplySCEdit(p, e) ==
    CASE e[1] = "envelope_height" -> [p EXCEPT !.envelope_height = e[2]]
      [] e[1] = "envelope_width" -> [p EXCEPT !.envelope_width = e[2]]
      [] e[1] = "envelope_length" -> [p EXCEPT !.envelope_length = e[2]]
      [] e[1] = "envelope_distance" -> [p EXCEPT !.envelope_distance = e[2]]
      [] e[1] = "density1" -> [p EXCEPT !.envelope_density[1] = e[2]]
      [] e[1] = "density2" -> [p EXCEPT !.envelope_density[2] = e[2]]
      [] e[1] = "density3" -> [p EXCEPT !.envelope_density[3] = e[2]]

(***************************************************************************)
(* MeshRenderer: buffer objects.                                           *)
(***************************************************************************)
\* MeshRenderer::createBuffers: a buffer object under an unused name
NewBufferName(live) == CHOOSE n \in 1..(Cardinality(live) + 1) : n \notin live

\* MeshRenderer::deleteBuffers: the named object is deleted; a name that is not live is ignored
deleteBuffers(live, h) == live \ {h}

\* float division: a zero divisor gives an infinity or a NaN, not a trap
FDiv(n, d) ==
    [num |-> n, den |-> d,
     kind |-> IF d # 0 THEN "finite"
              ELSE IF n = 0 THEN "nan" ELSE IF n > 0 THEN "+inf" ELSE "-inf"]


(***************************************************************************)
(* Parameter ranges section 7 of the specification calls valid.            *)
(***************************************************************************)
ValidParameters(v) ==
    IF v.tag = "LSystemParameters"
    THEN /\ v.val.depth >= 0
         /\ v.val.minLeafCount >= 0
         /\ v.val.minLeafCount <= v.val.maxLeafCount
    ELSE /\ v.val.envelope_height > 0
         /\ v.val.envelope_width > 0
         /\ v.val.envelope_length > 0
         /\ \A i \in 1..3 : v.val.envelope_density[i] > 0

(***************************************************************************)
(* regenerateTree                                                          *)
(***************************************************************************)
\* a call regenerateTree(m, ..., args) whose caller continues at ret
CallRegenerateTree(src, m, args, ret) ==
    /\ rt' = [currentMode |-> m, parameters |-> args, src |-> src, ret |-> ret]
    /\ glStale' = glLive
    /\ pc' = "rt_delete"

\* clear both transform lists, delete the old cylinder buffers only
RtDeleteOld_leakLeaf ==
    /\ pc = "rt_delete"
    /\ UNCHANGED <<lsVars, scVars>>
    /\ transforms' = Empty
    /\ glLive' = deleteBuffers(glLive, cylinderBuffers.name)
    /\ glStale' = deleteBuffers(glStale, cylinderBuffers.name)
    /\ pc' = "rt_cylinder"
    /\ UNCHANGED <<mode, lParams, scParams, parameters, rt, cylinderBuffers, leafBuffers,
                   presetFired, edits>>

\* clear both transform lists, delete the old buffers
RtDeleteOld ==
    /\ pc = "rt_delete"
    /\ UNCHANGED <<lsVars, scVars>>
    /\ transforms' = Empty
    /\ glLive' = deleteBuffers(deleteBuffers(glLive, cylinderBuffers.name), leafBuffers.name)
    /\ glStale' = deleteBuffers(deleteBuffers(glStale, cylinderBuffers.name), leafBuffers.name)
    /\ pc' = "rt_cylinder"
    /\ UNCHANGED <<mode, lParams, scParams, parameters, rt, cylinderBuffers, leafBuffers,
                   presetFired, edits>>

\* branchLength reads the argument currentMode, branchRadius the global mode;
\* std::get on the other alternative throws std::bad_variant_access
RtCreateCylinder ==
    /\ pc = "rt_cylinder"
    /\ UNCHANGED <<lsVars, scVars>>
    /\ IF mode = "LSystem" /\ rt.parameters.tag # "LSystemParameters"
       THEN /\ pc' = "bad_variant_access"
            /\ UNCHANGED <<cylinderBuffers, glLive>>
       ELSE LET branchLength == IF rt.currentMode = "SpaceColonization" THEN 24 ELSE 100
                branchRadius == IF mode = "LSystem"
                                THEN 5 * rt.parameters.val.branchRadius ELSE 50
                n == NewBufferName(glLive)
            IN  /\ cylinderBuffers' = [name |-> n, mesh |-> <<"cylinder", branchRadius, branchLength>>]
                /\ glLive' = glLive \cup {n}
                /\ pc' = "rt_leaf"
    /\ UNCHANGED <<mode, lParams, scParams, parameters, rt, leafBuffers, transforms,
                   glStale, presetFired, edits>>

RtCreateLeaf ==
    /\ pc = "rt_leaf"
    /\ UNCHANGED <<lsVars, scVars>>
    /\ LET n == NewBufferName(glLive)
       IN  /\ leafBuffers' = [name |-> n, mesh |-> <<"leaf">>]
           /\ glLive' = glLive \cup {n}
    /\ pc' = "rt_generate"
    /\ UNCHANGED <<mode, lParams, scParams, parameters, rt, cylinderBuffers, transforms,
                   glStale, presetFired, edits>>

\* the L-System branch: the arguments handed to Tree::createBranchesLSystem
LSystemGeneration(params) ==
    [mode |-> "LSystem", parameters |-> LVariant(params),
     axiom |-> params.axiom, rules |-> HardcodedRules,
     scaleFactor |-> params.scaleFactor, depth |-> params.depth,
     maxLeafCount |-> params.maxLeafCount, minLeafCount |-> params.minLeafCount]

\* the space-colonization branch: the envelope handed to AttractionPointManager
SpaceColonizationGeneration(params) ==
    [mode |-> "SpaceColonization", parameters |-> SCVariant(params),
     position_y |-> params.envelope_distance,
     positive_x |-> params.envelope_density[1], negative_x |-> params.envelope_density[1],
     positive_y |-> params.envelope_density[2],
     positive_z |-> params.envelope_density[3], negative_z |-> params.envelope_density[3],
     interval |-> << FDiv(params.envelope_length, 2 * params.envelope_density[1]),
                     FDiv(params.envelope_height, params.envelope_density[2]),
                     FDiv(params.envelope_width, 2 * params.envelope_density[3]) >>]

\* if (currentMode == LSystem) ... else if (mode == SpaceColonization) ...; then return
RtGenerate ==
    /\ pc = "rt_generate"
    /\ UNCHANGED <<lsVars, scVars>>
    /\ IF rt.currentMode = "LSystem"
       THEN IF rt.parameters.tag # "LSystemParameters"
            THEN pc' = "bad_variant_access" /\ UNCHANGED <<transforms, rt>>
            ELSE /\ transforms' = LSystemGeneration(rt.parameters.val)
                 /\ pc' = rt.ret
                 /\ rt' = NoCall
       ELSE IF mode = "SpaceColonization"
            THEN IF rt.parameters.tag # "SpaceColonizationParameters"
                 THEN pc' = "bad_variant_access" /\ UNCHANGED <<transforms, rt>>
                 ELSE /\ transforms' = SpaceColonizationGeneration(rt.parameters.val)
                      /\ pc' = rt.ret
                      /\ rt' = NoCall
            ELSE /\ pc' = rt.ret
                 /\ rt' = NoCall
                 /\ UNCHANGED transforms
    /\ UNCHANGED <<mode, lParams, scParams, parameters, cylinderBuffers, leafBuffers,
                   glLive, glStale, presetFired, edits>>

(***************************************************************************)
(* main                                                                    *)
(***************************************************************************)
\* the state when main reaches "only for the first generation"
InitUI ==
    /\ pc = "first_generation"
    /\ mode = "LSystem"
    /\ lParams = DEFAULT_L_SYS_PARAMS
    /\ scParams = DEFAULT_SPACE_COLONIZATION_PARAMS
    /\ parameters = LVariant(DEFAULT_L_SYS_PARAMS)
    /\ rt = NoCall
    /\ cylinderBuffers = [name |-> 1, mesh |-> <<>>]
    /\ leafBuffers = [name |-> 2, mesh |-> <<"leaf">>]
    /\ glLive = {1, 2}
    /\ transforms = Empty
    /\ glStale = {}
    /\ presetFired = FALSE
    /\ edits = 0

FirstGeneration ==
    /\ pc = "first_generation"
    /\ UNCHANGED <<lsVars, scVars>>
    /\ parameters' = IF mode = "LSystem" THEN LVariant(DEFAULT_L_SYS_PARAMS)
                     ELSE SCVariant(DEFAULT_SPACE_COLONIZATION_PARAMS)
    /\ CallRegenerateTree("first", mode, parameters', "loop")
    /\ UNCHANGED <<mode, lParams, scParams, cylinderBuffers, leafBuffers, glLive,
                   transforms, presetFired, edits>>

\* while (!window.shouldClose()): draw with the current buffers and transforms
LoopFrame ==
    /\ pc = "loop"
    /\ UNCHANGED <<lsVars, scVars>>
    /\ \E shouldClose \in BOOLEAN :
         pc' = IF shouldClose THEN "cleanup" ELSE "radio_lsystem"
    /\ presetFired' = FALSE
    /\ UNCHANGED <<mode, lParams, scParams, parameters, rt, cylinderBuffers, leafBuffers,
                   glLive, transforms, glStale, edits>>

\* after the loop: MeshRenderer::deleteBuffers(cylinderBuffers)
Cleanup ==
    /\ pc = "cleanup"
    /\ UNCHANGED <<lsVars, scVars>>
    /\ glLive' = deleteBuffers(glLive, cylinderBuffers.name)
    /\ pc' = "exit"
    /\ UNCHANGED <<mode, lParams, scParams, parameters, rt, cylinderBuffers, leafBuffers,
                   transforms, glStale, presetFired, edits>>

\* the radio button sets the mode and regenerates without setting `parameters`
RadioLSystem_keepParameters ==
    /\ pc = "radio_lsystem"
    /\ UNCHANGED <<lsVars, scVars>>
    /\ \E clicked \in BOOLEAN :
         IF clicked
         THEN /\ mode' = "LSystem"
              /\ UNCHANGED parameters
              /\ CallRegenerateTree("radio", "LSystem", parameters, "radio_spacecol")
         ELSE /\ pc' = "radio_spacecol"
              /\ UNCHANGED <<mode, parameters, rt, glStale>>
    /\ UNCHANGED <<lParams, scParams, cylinderBuffers, leafBuffers, glLive, transforms,
                   presetFired, edits>>

RadioLSystem ==
    /\ pc = "radio_lsystem"
    /\ UNCHANGED <<lsVars, scVars>>
    /\ \E clicked \in BOOLEAN :
         IF clicked
         THEN /\ mode' = "LSystem"
              /\ parameters' = LVariant(DEFAULT_L_SYS_PARAMS)
              /\ CallRegenerateTree("radio", "LSystem", parameters', "radio_spacecol")
         ELSE /\ pc' = "radio_spacecol"
              /\ UNCHANGED <<mode, parameters, rt, glStale>>
    /\ UNCHANGED <<lParams, scParams, cylinderBuffers, leafBuffers, glLive, transforms,
                   presetFired, edits>>

RadioSpaceColonization ==
    /\ pc = "radio_spacecol"
    /\ UNCHANGED <<lsVars, scVars>>
    /\ \E clicked \in BOOLEAN :
         IF clicked
         THEN /\ mode' = "SpaceColonization"
              /\ parameters' = SCVariant(DEFAULT_SPACE_COLONIZATION_PARAMS)
              /\ CallRegenerateTree("radio", "SpaceColonization", parameters', "panel")
         ELSE /\ pc' = "panel"
              /\ UNCHANGED <<mode, parameters, rt, glStale>>
    /\ UNCHANGED <<lParams, scParams, cylinderBuffers, leafBuffers, glLive, transforms,
                   presetFired, edits>>

\* the Parameters panel edits its inputs in place and leaves `parameters` as it was
ParametersPanel_noCopy ==
    /\ pc = "panel"
    /\ UNCHANGED <<lsVars, scVars>>
    /\ IF mode = "LSystem"
       THEN /\ \/ UNCHANGED <<lParams, edits>>
               \/ \E e \in LEdits :
                    /\ edits < MaxEdits
                    /\ lParams' = ApplyLEdit(lParams, e)
                    /\ lParams' # lParams
                    /\ edits' = edits + 1
            /\ UNCHANGED scParams
       ELSE /\ \/ UNCHANGED <<scParams, edits>>
               \/ \E e \in SCEdits :
                    /\ edits < MaxEdits
                    /\ scParams' = ApplySCEdit(scParams, e)
                    /\ scParams' # scParams
                    /\ edits' = edits + 1
            /\ UNCHANGED lParams
    /\ UNCHANGED parameters
    /\ pc' = "presets"
    /\ UNCHANGED <<mode, rt, cylinderBuffers, leafBuffers, glLive, transforms, glStale,
                   presetFired>>

\* the Parameters panel: the inputs of the current mode edit lParams or scParams in
\* place (one input per frame), then `parameters` is assigned the edited set
ParametersPanel ==
    /\ pc = "panel"
    /\ UNCHANGED <<lsVars, scVars>>
    /\ IF mode = "LSystem"
       THEN /\ \/ UNCHANGED <<lParams, edits>>
               \/ \E e \in LEdits :
                    /\ edits < MaxEdits
                    /\ lParams' = ApplyLEdit(lParams, e)
                    /\ lParams' # lParams
                    /\ edits' = edits + 1
            /\ UNCHANGED scParams
            /\ parameters' = LVariant(lParams')
       ELSE /\ \/ UNCHANGED <<scParams, edits>>
               \/ \E e \in SCEdits :
                    /\ edits < MaxEdits
                    /\ scParams' = ApplySCEdit(scParams, e)
                    /\ scParams' # scParams
                    /\ edits' = edits + 1
            /\ UNCHANGED lParams
            /\ parameters' = SCVariant(scParams')
    /\ pc' = "presets"
    /\ UNCHANGED <<mode, rt, cylinderBuffers, leafBuffers, glLive, transforms, glStale,
                   presetFired>>

\* what each preset button assigns to lParams
PresetValue(button) ==
    CASE button = "Small Plant" -> L_SYS_PRESET_PLANT
      [] button = "Dense Tree" -> [DEFAULT_L_SYS_PARAMS EXCEPT !.depth = 4]
      [] button = "Autumn Tree" ->
            [L_SYS_PRESET_PLANT EXCEPT !.scaleFactor = 75, !.branchRadius = 15,
                                       !.depth = 3, !.minLeafCount = 5, !.maxLeafCount = 7]

\* if (mode == LSystem) { if (Button("Small Plant")) ... else if ... }
Presets ==
    /\ pc = "presets"
    /\ UNCHANGED <<lsVars, scVars>>
    /\ IF mode = "LSystem"
       THEN \E button \in {"none", "Small Plant", "Dense Tree", "Autumn Tree"} :
              IF button = "none"
              THEN /\ pc' = "regenerate_button"
                   /\ UNCHANGED <<lParams, rt, glStale, presetFired>>
              ELSE /\ lParams' = PresetValue(button)
                   /\ presetFired' = TRUE
                   /\ CallRegenerateTree("preset", mode, LVariant(lParams'), "regenerate_button")
       ELSE /\ pc' = "regenerate_button"
            /\ UNCHANGED <<lParams, rt, glStale, presetFired>>
    /\ UNCHANGED <<mode, scParams, parameters, cylinderBuffers, leafBuffers, glLive,
                   transforms, edits>>

RegenerateButton ==
    /\ pc = "regenerate_button"
    /\ UNCHANGED <<lsVars, scVars>>
    /\ \E clicked \in BOOLEAN :
         IF clicked
         THEN CallRegenerateTree("regenerate", mode, parameters, "reset_button")
         ELSE /\ pc' = "reset_button"
              /\ UNCHANGED <<rt, glStale>>
    /\ UNCHANGED <<mode, lParams, scParams, parameters, cylinderBuffers, leafBuffers,
                   glLive, transforms, presetFired, edits>>

\* "Reset Default Params", then the end of the frame
ResetButton ==
    /\ pc = "reset_button"
    /\ UNCHANGED <<lsVars, scVars>>
    /\ \E clicked \in BOOLEAN :
         IF clicked
         THEN IF mode = "LSystem"
              THEN /\ lParams' = DEFAULT_L_SYS_PARAMS
                   /\ UNCHANGED scParams
                   /\ CallRegenerateTree("reset", mode, LVariant(lParams'), "loop")
              ELSE /\ scParams' = DEFAULT_SPACE_COLONIZATION_PARAMS
                   /\ UNCHANGED lParams
                   /\ CallRegenerateTree("reset", mode, SCVariant(scParams'), "loop")
         ELSE /\ pc' = "loop"
              /\ UNCHANGED <<lParams, scParams, rt, glStale>>
    /\ UNCHANGED <<mode, parameters, cylinderBuffers, leafBuffers, glLive, transforms,
                   presetFired, edits>>

NextUI ==
    \/ FirstGeneration
    \/ LoopFrame
    \/ Cleanup
    \/ RadioLSystem
    \/ RadioSpaceColonization
    \/ ParametersPanel
    \/ Presets
    \/ RegenerateButton
    \/ ResetButton
    \/ RtDeleteOld
    \/ RtCreateCylinder
    \/ RtCreateLeaf
    \/ RtGenerate


(***************************************************************************)
(* Tree::createBranchesLSystem: rewriting and turtle interpretation        *)
(* (specification 4.1).                                                    *)
(***************************************************************************)
\* one symbol of one pass: a rule key is replaced, any other symbol passes through
RewriteSymbol(rules, c) ==
    IF c \in DOMAIN rules THEN rules[c] ELSE <<c>>

RotationSymbols == {"+", "-", "&", "^", "/", "\\", "*"}

\* the scenario grammar of specification section 8
ScenarioRules == [c \in {"F"} |-> <<"F","[","+","F","]","[","-","F","]">>]

\* the runs explored: what regenerateTree passes for the presets' axiom "X" with its
\* local rules, and the scenario grammar; depth and leaf counts from small sets
LsConfigs ==
    {[name |-> "hardcoded", axiom |-> DEFAULT_L_SYS_PARAMS.axiom, rules |-> HardcodedRules,
      depth |-> d, minLeafCount |-> 1, maxLeafCount |-> 1] : d \in 0..MaxDepth}
    \cup {[name |-> "hardcoded", axiom |-> L_SYS_PRESET_PLANT.axiom, rules |-> HardcodedRules,
           depth |-> d, minLeafCount |-> 1, maxLeafCount |-> 2] : d \in -1..1}
    \cup {[name |-> "scenario", axiom |-> <<"F">>, rules |-> ScenarioRules,
           depth |-> d, minLeafCount |-> 1, maxLeafCount |-> 2] : d \in 0..MaxDepth}

InitLSystem ==
    /\ lsCfg \in LsConfigs
    /\ lspc = "pass"
    /\ lsPass = 0
    /\ lsIn = lsCfg.axiom
    /\ lsOut = <<>>
    /\ turtle = [level |-> 0, dist |-> 0, turns |-> 0]
    /\ stack = <<>>
    /\ segs = <<>>
    /\ leaves = 0
    /\ lsError = FALSE

\* for (i = 0; i < depth; i++): begin the next pass, or begin the interpretation
LsPass ==
    /\ lspc = "pass"
    /\ IF lsPass < lsCfg.depth
       THEN lspc' = "rewrite"
       ELSE lspc' = "interpret"
    /\ UNCHANGED <<lsCfg, lsPass, lsIn, lsOut, turtle, stack, segs, leaves, lsError>>
    /\ UNCHANGED <<uiVars, scVars>>

\* left to right, into a fresh string: text produced in this pass is not rescanned
LsRewrite ==
    /\ lspc = "rewrite"
    /\ lsIn # <<>>
    /\ lsOut' = lsOut \o RewriteSymbol(lsCfg.rules, Head(lsIn))
    /\ lsIn' = Tail(lsIn)
    /\ UNCHANGED <<lsCfg, lspc, lsPass, turtle, stack, segs, leaves, lsError>>
    /\ UNCHANGED <<uiVars, scVars>>

LsEndPass ==
    /\ lspc = "rewrite"
    /\ lsIn = <<>>
    /\ lsIn' = lsOut
    /\ lsOut' = <<>>
    /\ lsPass' = lsPass + 1
    /\ lspc' = "pass"
    /\ UNCHANGED <<lsCfg, turtle, stack, segs, leaves, lsError>>
    /\ UNCHANGED <<uiVars, scVars>>

\* one more segment at nesting level l
AddSegment(sg, l) ==
    LET padded == [i \in 1..(IF Len(sg) > l THEN Len(sg) ELSE l + 1) |->
                      IF i <= Len(sg) THEN sg[i] ELSE 0]
    IN  [padded EXCEPT ![l + 1] = @ + 1]

\* "[" pushes a copy of the turtle state without entering a deeper level
TurtlePush_sameLevel(t) == t

\* "[" pushes a copy of the turtle state; the turtle continues one level deeper
TurtlePush(t) == [t EXCEPT !.level = @ + 1]

\* one symbol of the turtle program
LsInterpret ==
    /\ lspc = "interpret"
    /\ lsIn # <<>>
    /\ LET c == Head(lsIn)
       IN  /\ lsIn' = Tail(lsIn)
           /\ CASE c = "F" ->
                     /\ segs' = AddSegment(segs, turtle.level)
                     /\ turtle' = [turtle EXCEPT !.dist = @ + 1]
                     /\ UNCHANGED <<stack, leaves, lsError, lspc>>
                [] c = "[" ->
                     /\ stack' = <<turtle>> \o stack
                     /\ turtle' = TurtlePush(turtle)
                     /\ UNCHANGED <<segs, leaves, lsError, lspc>>
                [] c = "]" ->
                     IF stack = <<>>
                     THEN /\ lsError' = TRUE
                          /\ lspc' = "malformed"
                          /\ UNCHANGED <<turtle, stack, segs, leaves>>
                     ELSE /\ turtle' = Head(stack)
                          /\ stack' = Tail(stack)
                          /\ UNCHANGED <<segs, leaves, lsError, lspc>>
                [] c = "L" ->
                     /\ \E k \in lsCfg.minLeafCount..lsCfg.maxLeafCount : leaves' = leaves + k
                     /\ UNCHANGED <<turtle, stack, segs, lsError, lspc>>
                [] c \in RotationSymbols ->
                     /\ turtle' = [turtle EXCEPT !.turns = @ + 1]
                     /\ UNCHANGED <<stack, segs, leaves, lsError, lspc>>
                [] OTHER ->
                     UNCHANGED <<turtle, stack, segs, leaves, lsError, lspc>>
    /\ UNCHANGED <<lsCfg, lsPass, lsOut>>
    /\ UNCHANGED <<uiVars, scVars>>

\* the end of the string: a state still on the stack is unbalanced input
LsFinish ==
    /\ lspc = "interpret"
    /\ lsIn = <<>>
    /\ lsError' = (stack # <<>>)
    /\ lspc' = "done"
    /\ UNCHANGED <<lsCfg, lsPass, lsIn, lsOut, turtle, stack, segs, leaves>>
    /\ UNCHANGED <<uiVars, scVars>>

NextLSystem ==
    \/ LsPass
    \/ LsRewrite
    \/ LsEndPass
    \/ LsInterpret
    \/ LsFinish

(***************************************************************************)
(* Space colonization on one axis: a position is an integer, the unit      *)
(* vector from a node to a point is the sign of the difference             *)
(* (specification 4.2, 4.3); the driver is regenerateTree's.               *)
(***************************************************************************)
Abs(x) == IF x < 0 THEN -x ELSE x
Sign(x) == IF x < 0 THEN -1 ELSE IF x > 0 THEN 1 ELSE 0

\* the nearest node of a point: the first of the nearest in the scan
Nearest(ns, p) ==
    CHOOSE i \in 1..Len(ns) :
        \A j \in 1..Len(ns) :
            \/ Abs(ns[i].pos - p) < Abs(ns[j].pos - p)
            \/ Abs(ns[i].pos - p) = Abs(ns[j].pos - p) /\ i <= j

\* AttractionPointManager::UpdateLinks(nodes, attractionRadius, killRadius)
UpdateLinks(ns, pts, attractionRadius, killRadius) ==
    LET dist(p) == Abs(ns[Nearest(ns, p)].pos - p)
        kept == {p \in DOMAIN pts : dist(p) > killRadius}
        linked(i) == {p \in kept : dist(p) <= attractionRadius /\ Nearest(ns, p) = i}
    IN  [points |-> [p \in kept |-> IF dist(p) <= attractionRadius THEN Nearest(ns, p) ELSE 0],
         nodes |-> [i \in 1..Len(ns) |->
                      [ns[i] EXCEPT
                         !.accum = @ + Cardinality({p \in linked(i) : p > ns[i].pos})
                                     - Cardinality({p \in linked(i) : p < ns[i].pos}),
                         !.count = Cardinality(linked(i))]]]

\* TreeNodeManager::GrowNewNodes(step)
GrowNewNodes(ns, step) ==
    LET growing == SelectSeq([i \in 1..Len(ns) |-> i], LAMBDA i : ns[i].accum # 0)
        children == [k \in 1..Len(growing) |->
                        [pos |-> ns[growing[k]].pos + Sign(ns[growing[k]].accum) * step,
                         parent |-> growing[k], accum |-> 0, count |-> 0]]
    IN  [grew |-> growing # <<>>,
         nodes |-> [i \in 1..Len(ns) |-> [ns[i] EXCEPT !.accum = 0, !.count = 0]] \o children]

\* TreeNodeManager(count): the root nodes, none with a parent
TreeNodeManager(count, bias) ==
    [i \in 1..count |-> [pos |-> (i - 1) * BRANCH_LENGTH, parent |-> 0, accum |-> bias, count |-> 0]]

\* the loop runs on although the last GrowNewNodes call reported no growth
LoopCondition_ignoresGrew(g, i) == i < MAX_GROW

\* while (grew != false && itr < MAX_GROW)
LoopCondition(g, i) == g /\ i < MAX_GROW

Coords == (-MaxCoord)..MaxCoord

ScConfigs ==
    {[roots |-> r, bias |-> b, points |-> ps, stub |-> FALSE] :
        r \in {1, ROOT_BRANCH_COUNT}, b \in {0, 1},
        ps \in {q \in SUBSET Coords : Cardinality(q) <= MaxPoints}}

InitScWith(cfg) ==
    /\ scCfg = cfg
    /\ scpc = "first_link"
    /\ nodes = TreeNodeManager(cfg.roots, cfg.bias)
    /\ points = [p \in cfg.points |-> 0]
    /\ itr = 0
    /\ grew = TRUE
    /\ growCalls = 0
    /\ callsAfterStall = 0
    /\ linkCalls = 0
    /\ lastGrown = 0

\* attractionPoints.UpdateLinks(treeNodeManager, 0.5f, 0.2f); int itr = 0; bool grew = true;
ScFirstLink ==
    /\ scpc = "first_link"
    /\ LET u == UpdateLinks(nodes, points, ATTRACTION_RADIUS, KILL_RADIUS)
       IN  nodes' = u.nodes /\ points' = u.points
    /\ linkCalls' = linkCalls + 1
    /\ itr' = 0
    /\ grew' = TRUE
    /\ scpc' = "loop"
    /\ UNCHANGED <<scCfg, growCalls, callsAfterStall, lastGrown>>
    /\ UNCHANGED <<uiVars, lsVars>>

\* grew = treeNodeManager.GrowNewNodes(BRANCH_LENGTH), with r what the call does
ScGrowStep(r) ==
    /\ scpc = "loop"
    /\ LoopCondition(grew, itr)
    /\ grew' = r.grew
    /\ nodes' = r.nodes
    /\ lastGrown' = Len(r.nodes) - Len(nodes)
    /\ growCalls' = growCalls + 1
    /\ callsAfterStall' = IF grew THEN callsAfterStall ELSE callsAfterStall + 1
    /\ scpc' = "link"
    /\ UNCHANGED <<scCfg, points, itr, linkCalls>>
    /\ UNCHANGED <<uiVars, lsVars>>

ScGrow == ScGrowStep(GrowNewNodes(nodes, BRANCH_LENGTH))

\* GrowNewNodes left open: it may report growth or none, whatever the nodes are
ScGrowAny == \E b \in BOOLEAN : ScGrowStep([grew |-> b, nodes |-> nodes])

\* the loop body without its UpdateLinks call
ScLink_skipsUpdate ==
    /\ scpc = "link"
    /\ itr' = itr + 1
    /\ scpc' = "loop"
    /\ UNCHANGED <<scCfg, nodes, points, linkCalls, grew, growCalls, callsAfterStall, lastGrown>>
    /\ UNCHANGED <<uiVars, lsVars>>

\* attractionPoints.UpdateLinks(treeNodeManager, 0.5f, 0.2f); itr++;
ScLink ==
    /\ scpc = "link"
    /\ LET u == UpdateLinks(nodes, points, ATTRACTION_RADIUS, KILL_RADIUS)
       IN  nodes' = u.nodes /\ points' = u.points
    /\ linkCalls' = linkCalls + 1
    /\ itr' = itr + 1
    /\ scpc' = "loop"
    /\ UNCHANGED <<scCfg, grew, growCalls, callsAfterStall, lastGrown>>
    /\ UNCHANGED <<uiVars, lsVars>>

\* the loop ends; Tree::createBranchesSpaceColonization walks the nodes
ScExit ==
    /\ scpc = "loop"
    /\ ~LoopCondition(grew, itr)
    /\ scpc' = "done"
    /\ UNCHANGED <<scCfg, nodes, points, itr, grew, growCalls, callsAfterStall, linkCalls, lastGrown>>
    /\ UNCHANGED <<uiVars, lsVars>>

NextSC == ScFirstLink \/ ScGrow \/ ScLink \/ ScExit

NextDriver == ScFirstLink \/ ScGrowAny \/ ScLink \/ ScExit

\* the other two machines at rest
InitLsIdle ==
    /\ lsCfg = None /\ lspc = "idle" /\ lsPass = 0 /\ lsIn = <<>> /\ lsOut = <<>>
    /\ turtle = None /\ stack = <<>> /\ segs = <<>> /\ leaves = 0 /\ lsError = FALSE

InitScIdle ==
    /\ scCfg = None /\ scpc = "idle" /\ nodes = <<>> /\ points = {} /\ itr = 0
    /\ grew = TRUE /\ growCalls = 0 /\ callsAfterStall = 0 /\ linkCalls = 0 /\ lastGrown = 0

Init == InitUI /\ InitLsIdle /\ InitScIdle

Next == NextUI

Spec == Init /\ [][Next]_vars

\* the L-System generator alone, from every explored configuration
InitLS == InitUI /\ InitScIdle /\ InitLSystem

SpecLSystem == InitLS /\ [][NextLSystem]_vars

\* the space-colonization run alone, from every explored configuration
InitSC == InitUI /\ InitLsIdle /\ (\E cfg \in ScConfigs : InitScWith(cfg))

SpecSC == InitSC /\ [][NextSC]_vars

\* the driver loop with GrowNewNodes left open
InitDriver ==
    /\ InitUI
    /\ InitLsIdle
    /\ InitScWith([roots |-> ROOT_BRANCH_COUNT, bias |-> 0, points |-> {}, stub |-> TRUE])

SpecDriver == InitDriver /\ [][NextDriver]_vars

\* regenerateTree is straight-line single-threaded code: a step that can be taken is taken
FairSpecDriver == SpecDriver /\ WF_vars(NextDriver)


(***************************************************************************)
(* The claims.                                                             *)
(***************************************************************************)

\* C1: the driver loop of regenerateTree ends, whatever GrowNewNodes reports: it
\* calls GrowNewNodes at most MAX_GROW times, and never again after a call that
\* reported no growth.
C1_DriverTerminates ==
    /\ [](growCalls <= MAX_GROW /\ callsAfterStall = 0)
    /\ <>(scpc = "done")

\* C1: the cap ends a run in which every call reported growth
C1_Witness == scpc = "done" /\ growCalls = MAX_GROW /\ grew /\ itr = MAX_GROW

\* C2 as stated: whenever a frame is drawn, the transform lists were generated
\* from the current values of the active parameter set.
C2_TransformsNeverStale ==
    pc = "loop" /\ transforms.mode # "empty" => transforms.parameters = ActiveParams

\* C2 as amended: regenerateTree runs only on a button (an edit in the Parameters
\* panel alone leaves the transform lists as they were generated); a call made by
\* Regenerate, a preset button or Reset Default Params is passed the current
\* active parameter set, the edits of the same frame included (Regenerate passes
\* the copy taken in the Parameters panel, which a preset button fired later in
\* the same frame does not update).
C2_ButtonsPassCurrentParameters ==
    /\ rt.src # "none" /\ rt.src \in {"preset", "reset"} => rt.parameters = ActiveParams
    /\ rt.src # "none" /\ rt.src = "regenerate" /\ ~presetFired => rt.parameters = ActiveParams
    /\ pc = "presets" => rt.src = "none"

\* C2: Regenerate is pressed after an edit, with the lists still showing the old values
C2_Witness ==
    /\ pc = "rt_delete"
    /\ rt.src = "regenerate"
    /\ edits > 0
    /\ rt.parameters = ActiveParams
    /\ transforms.mode # "empty"
    /\ transforms.parameters # rt.parameters
    /\ transforms.mode = mode

\* C3: never more than two buffer objects are live, and once a regenerateTree
\* call has returned no buffer object created before that call is live.
C3_BuffersReleased ==
    /\ Cardinality(glLive) <= 2
    /\ rt.src = "none" => glStale = {}
    /\ pc \in {"rt_leaf", "rt_generate"} => cylinderBuffers.name \in glLive
    /\ rt.src = "none" /\ pc \notin {"first_generation", "exit"} =>
          /\ glLive = {cylinderBuffers.name, leafBuffers.name}
          /\ cylinderBuffers.name # leafBuffers.name

\* C3: a UI-triggered regeneration has replaced the buffers of an earlier one
C3_Witness ==
    /\ pc = "rt_generate"
    /\ rt.src \in {"regenerate", "radio"}
    /\ Cardinality(glLive) = 2
    /\ glStale = {}

\* C4: the L-System branch rewrites with the rules mapping of the configuration
\* it was passed.
C4_RulesOfTheConfig ==
    transforms.mode # "empty" /\ transforms.mode = "LSystem" =>
        transforms.rules = transforms.parameters.val.rules

\* C5: no generation is performed with an invalid parameter set, and the envelope
\* intervals are never the result of a division by a zero density.
C5_InvalidRejected ==
    transforms.mode # "empty" =>
        /\ ValidParameters(transforms.parameters)
        /\ transforms.mode = "SpaceColonization" =>
              \A i \in 1..3 : transforms.interval[i].kind = "finite"

ScenarioDone == lsCfg.name = "scenario" /\ lsCfg.depth = 2 /\ lspc = "done"

\* F[+F][-F][+F[+F][-F]][-F[+F][-F]]
ScenarioString ==
    <<"F","[","+","F","]","[","-","F","]",
      "[","+","F","[","+","F","]","[","-","F","]","]",
      "[","-","F","[","+","F","]","[","-","F","]","]">>

\* C6 as stated: axiom F, rule F -> F[+F][-F], depth 2: one segment at level 0,
\* two at level 1, four at level 2, no leaf.
C6_OneTwoFour ==
    ScenarioDone => segs = <<1, 2, 4>> /\ leaves = 0

\* C6 as amended: axiom F, rule F -> F[+F][-F], depth 2: one segment at level 0,
\* four at level 1 and four at level 2 (nine in all), no leaf, and the string
\* interpreted is F[+F][-F][+F[+F][-F]][-F[+F][-F]].
C6_OneFourFour ==
    /\ ScenarioDone => segs = <<1, 4, 4>> /\ leaves = 0 /\ ~lsError /\ stack = <<>>
    /\ lsCfg.name = "scenario" /\ lsCfg.depth = 2 /\ lspc = "interpret" =>
          \E n \in 0..Len(ScenarioString) :
              lsIn = SubSeq(ScenarioString, n + 1, Len(ScenarioString))

\* C6: the scenario has been interpreted to its end
C6_Witness == ScenarioDone /\ turtle.dist = 1 /\ Len(segs) = 3

\* C10: with the rules of regenerateTree and the axiom "X", after any number of
\* passes the interpretation never pops an empty stack and ends with the stack
\* empty.
C10_HardcodedBalanced ==
    lsCfg.name = "hardcoded" /\ lsCfg.axiom = <<"X">> =>
        /\ lspc # "malformed"
        /\ ~lsError
        /\ lspc = "done" => stack = <<>> /\ turtle.level = 0
        /\ turtle.level = Len(stack)

\* C10: a string of two passes has been interpreted, brackets included
C10_Witness ==
    /\ lsCfg.name = "hardcoded"
    /\ lsCfg.depth = MaxDepth
    /\ lspc = "done"
    /\ stack = <<>>
    /\ Len(segs) > MaxDepth

SCScenario == scCfg.roots = 1 /\ scCfg.points = {3} /\ ~scCfg.stub

\* C7: one root, one attraction point 0.3 above it: the first UpdateLinks links
\* the point to the root, the first GrowNewNodes creates one child a step above
\* the root and reports growth, the second UpdateLinks removes the point, the
\* second GrowNewNodes creates nothing and reports no growth, and the loop ends
\* after exactly two GrowNewNodes calls.
C7_Scenario ==
    SCScenario =>
        /\ linkCalls = 1 /\ growCalls = 0 => DOMAIN points = {3} /\ points[3] = 1
        /\ linkCalls = 1 /\ growCalls = 1 =>
              /\ Len(nodes) = 2
              /\ nodes[2].pos = nodes[1].pos + BRANCH_LENGTH
              /\ nodes[2].parent = 1
              /\ grew
              /\ lastGrown = 1
        /\ linkCalls >= 2 => DOMAIN points = {}
        /\ growCalls = 2 => lastGrown = 0 /\ ~grew /\ Len(nodes) = 2
        /\ growCalls <= 2
        /\ scpc = "done" => growCalls = 2 /\ linkCalls = 3

\* C7: the scenario has run to the end of the loop
C7_Witness == SCScenario /\ scpc = "done" /\ growCalls = 2 /\ Len(nodes) = 2

FarFromEveryNode(p) ==
    \A i \in 1..Len(nodes) : Abs(nodes[i].pos - p) > ATTRACTION_RADIUS

\* C8: within one regeneration the attraction points only ever lose members (a
\* removed point does not come back, the count never grows), and an UpdateLinks
\* call keeps, unassociated, every point farther than the attraction radius
\* from every node.
C8_PointsOnlyShrink ==
    [][ /\ DOMAIN points' \subseteq DOMAIN points
        /\ Cardinality(DOMAIN points') <= Cardinality(DOMAIN points)
        /\ linkCalls' # linkCalls =>
              \A p \in DOMAIN points :
                  FarFromEveryNode(p) => p \in DOMAIN points' /\ points'[p] = 0 ]_vars

\* C8: after growth, one point has been removed and a far one is still there
C8_Witness ==
    /\ linkCalls >= 2
    /\ growCalls >= 1
    /\ Len(nodes) > scCfg.roots
    /\ Cardinality(DOMAIN points) < Cardinality(scCfg.points)
    /\ \E p \in DOMAIN points : FarFromEveryNode(p) /\ points[p] = 0

VariantOf(m) ==
    IF m = "LSystem" THEN "LSystemParameters" ELSE "SpaceColonizationParameters"

\* C9: at every regenerateTree call currentMode is the global mode and the
\* variant holds that mode's alternative, so no std::get throws, and the
\* transform lists a call leaves are those of that mode's branch.
C9_VariantMatchesMode ==
    /\ pc # "bad_variant_access"
    /\ rt.src # "none" =>
          /\ rt.currentMode = mode
          /\ rt.parameters.tag = VariantOf(mode)
    /\ rt.src = "none" /\ pc # "first_generation" =>
          /\ transforms.mode # "empty"
          /\ transforms.mode = mode

\* C9: a call in space-colonization mode made by the Regenerate button, after a
\* call in L-System mode
C9_Witness ==
    /\ pc = "rt_generate"
    /\ rt.src = "regenerate"
    /\ rt.currentMode = "SpaceColonization"
    /\ rt.parameters.tag = "SpaceColonizationParameters"
    /\ edits > 0

=============================================================================
